---- MODULE Spec2Model ----
(***************************************************************************)
(* A state-machine model of two parts of uStreamer:                        *)
(*                                                                         *)
(*   src/src/encoder.c    the encoder backend: a configured type, a        *)
(*                        runtime type that falls back from OMX (hardware) *)
(*                        to CPU (software), and one OMX instance per      *)
(*                        worker slot;                                     *)
(*   src/src/dump/main.c  ustreamer-dump: the loop of _dump_sink that      *)
(*                        reads frames from a memory sink and writes them. *)
(*                                                                         *)
(* The encoder is modelled as built with OMX_ENCODER defined.  The main    *)
(* thread's calls (encoder_prepare, encoder_prepare_live, encoder_destroy) *)
(* are atomic actions taken while no worker is inside                      *)
(* encoder_compress_buffer; the workers' calls are split at every read and *)
(* write of the shared run->type and interleave freely.                    *)
(***************************************************************************)
EXTENDS Integers, Sequences, FiniteSets, TLC

\* ------------------------------------------------------------- bounds
MaxWorkers == 4          \* largest --workers value a run starts with
MaxPrepares == 2         \* encoder_prepare calls in one run
MaxReads == 6            \* memsink_client_get calls in one run
MaxNow == 15             \* the monotonic clock's last tick, in tenths of a second
MaxStep == 4             \* longest wait for a frame, in tenths of a second

\* ---------------------------------------------------------- constants
OMX_MAX_ENCODERS == 3
NULL == 0
DefaultQuality == 80

\* What encoder_destroy frees besides the OMX instances.
FREE_OMXS == -1
FREE_RUN == -2
FREE_ENCODER == -3

Workers == 0 .. (MaxWorkers - 1)

VARIABLES
    \* struct encoder_t and struct encoder_runtime_t
    enc_type,       \* encoder->type: the selected backend
    quality,        \* encoder->quality
    run_type,       \* encoder->run->type: the runtime backend tag
    n_omxs,         \* encoder->run->n_omxs
    omxs,           \* encoder->run->omxs[]: instance ids, NULL for an empty slot
    omxs_alloc,     \* encoder->run->omxs != NULL
    enc_state,      \* "alive" | "freed": encoder and encoder->run
    \* struct device_t
    n_workers,      \* dev->n_workers
    \* the OMX instances
    next_inst,      \* id the next successful omx_encoder_init returns
    release_log,    \* what encoder_destroy released, in order
    fault,          \* "none", or the undefined behaviour that was executed
    \* one encoder_compress_buffer call per worker
    w_pc,           \* "idle" | "l168" | "l169" | "l181" | "ret"
    w_calls,        \* the codecs this call invoked, in order
    w_ret,          \* the call's return value
    w_handle,       \* the OMX instance the call passed to the hardware codec
    \* history
    requested,      \* dev->n_workers on entry to the last OMX encoder_prepare
    prep_type,      \* encoder->type on entry to the last encoder_prepare
    fallback_by,    \* the operation whose failure caused the fallback since
                    \* the last encoder_prepare, or "none"
    fell,           \* some failure has made the backend software
    reselected,     \* OMX was selected after the last fallback
    ever_live_failed, \* some encoder_prepare_live failed
    era_failures,   \* compress calls that returned -1 since the last prepare
    live_touched,   \* instances the last encoder_prepare_live call was made on
    n_prepares      \* encoder_prepare calls so far

enc_vars == <<enc_type, quality, run_type, n_omxs, omxs, omxs_alloc, enc_state,
              n_workers, next_inst, release_log, fault,
              w_pc, w_calls, w_ret, w_handle,
              requested, prep_type, fallback_by, fell, reselected,
              ever_live_failed, era_failures, live_touched, n_prepares>>

VARIABLES
    \* ustreamer-dump: the arguments of _dump_sink
    output_path,    \* "" (none) | "-" | "file"
    output_json,    \* --output-json
    \* the global flag the signal handler sets
    stop,
    \* the locals of _dump_sink
    d_pc,           \* "l161" | "l174" | "l182" | "l183" | "l234" | "exit"
    frame,          \* "alive" | "destroyed"
    sink,           \* "NULL" | "open" | "destroyed"
    output_fp,      \* "NULL" | "stdout" | "file"
    base64_data,    \* base64_data != NULL
    fps, fps_accum, fps_second,
    retval,
    \* the environment
    now,            \* get_now_monotonic(), in tenths of a second
    d_freed,        \* how often each resource has been released
    \* history
    d_error,        \* what the last memsink_client_get returned
    d_events,       \* what the last loop iteration did, in order
    emitted,        \* frames written to the output so far
    write_failed,   \* some write or flush of the output has failed
    reads,          \* memsink_client_get calls so far
    seen,           \* frames observed so far in each whole second
    late_reads,     \* memsink_client_get calls made with the flag already set
    ex,             \* how many frames came, all of them at the first
                    \* instants of ExampleFrames; -1 once one did not
    exit_code       \* what main returned, -1 while it runs

dump_vars == <<output_path, output_json, stop, d_pc, frame, sink, output_fp,
               base64_data, fps, fps_accum, fps_second, retval, now, d_freed,
               d_error, d_events, emitted, write_failed, reads, seen, ex,
               late_reads, exit_code>>

vars == <<enc_vars, dump_vars>>

\* ------------------------------------------------- encoder_parse_type
\* Names are sequences of characters; strcasecmp compares them folded.
LowerOf(c) ==
    CASE c = "C" -> "c" [] c = "P" -> "p" [] c = "U" -> "u"
      [] c = "O" -> "o" [] c = "M" -> "m" [] c = "X" -> "x"
      [] OTHER -> c

strcasecmp(a, b) ==
    IF Len(a) = Len(b) /\ \A i \in 1 .. Len(a) : LowerOf(a[i]) = LowerOf(b[i])
    THEN 0 ELSE 1

_ENCODER_TYPES == << [name |-> <<"C", "P", "U">>, type |-> "CPU"],
                     [name |-> <<"O", "M", "X">>, type |-> "OMX"] >>

RECURSIVE ParseFrom(_, _)
ParseFrom(str, index) ==
    IF index > Len(_ENCODER_TYPES) THEN "UNKNOWN"
    ELSE IF strcasecmp(str, _ENCODER_TYPES[index].name) = 0
         THEN _ENCODER_TYPES[index].type
         ELSE ParseFrom(str, index + 1)

encoder_parse_type(str) == ParseFrom(str, 1)

BackendNames == { <<"C", "P", "U">>, <<"c", "p", "u">>, <<"O", "M", "X">>,
                  <<"o", "m", "x">>, <<"O", "m", "x">>, <<"G", "P", "U">>,
                  <<"O", "M">> }

\* --------------------------------------------------------- the encoder
AllIdle == \A w \in Workers : w_pc[w] = "idle"

Running == enc_state = "alive" /\ fault = "none"

EncStart(workers) ==
    /\ enc_type = "CPU"
    /\ quality = DefaultQuality
    /\ run_type = "CPU"
    /\ n_omxs = 0
    /\ omxs = <<>>
    /\ omxs_alloc = FALSE
    /\ enc_state = "alive"
    /\ n_workers = workers
    /\ next_inst = 1
    /\ release_log = <<>>
    /\ fault = "none"
    /\ w_pc = [w \in Workers |-> "idle"]
    /\ w_calls = [w \in Workers |-> <<>>]
    /\ w_ret = [w \in Workers |-> 0]
    /\ w_handle = [w \in Workers |-> NULL]
    /\ requested = 0
    /\ prep_type = "none"
    /\ fallback_by = "none"
    /\ fell = FALSE
    /\ reselected = FALSE
    /\ ever_live_failed = FALSE
    /\ era_failures = 0
    /\ live_touched = 0
    /\ n_prepares = 0

\* The caller's option handling: encoder->type = encoder_parse_type(name),
\* refused when the name is unknown.
SelectBackend(name) ==
    /\ Running /\ AllIdle
    /\ encoder_parse_type(name) # "UNKNOWN"
    /\ enc_type' = encoder_parse_type(name)
    /\ reselected' = (reselected \/ (fell /\ encoder_parse_type(name) = "OMX"))
    /\ UNCHANGED <<quality, run_type, n_omxs, omxs, omxs_alloc, enc_state,
                   n_workers, next_inst, release_log, fault,
                   w_pc, w_calls, w_ret, w_handle,
                   requested, prep_type, fallback_by, fell,
                   ever_live_failed, era_failures, live_touched, n_prepares>>
    /\ UNCHANGED dump_vars

hist_vars == <<requested, prep_type, fallback_by, fell, reselected,
               ever_live_failed, era_failures, live_touched, n_prepares>>

worker_vars == <<w_pc, w_calls, w_ret, w_handle>>

Range(seq) == { seq[i] : i \in 1 .. Len(seq) }

\* An instance that omx_encoder_init returned and nothing has released.
Live(h) == h # NULL /\ h < next_inst /\ h \notin Range(release_log)

\* ------------------------------------------------------ encoder_prepare
\* Lines 79-85: dev->n_workers is forced down to OMX_MAX_ENCODERS.
\* A bug: the worker count is taken as requested.
ClampWorkersNot(n) == n

ClampWorkers(n) == IF n > OMX_MAX_ENCODERS THEN OMX_MAX_ENCODERS ELSE n

\* Lines 88-93: a zeroed array of n slots, filled in ascending order until
\* omx_encoder_init returns NULL; `good` calls succeeded, the first with
\* instance `base`.
\* A bug: the loop stops one slot short.
AllocOmxsShort(n, good, base) ==
    [index \in 1 .. n |->
        IF index <= good /\ index < n THEN base + (index - 1) ELSE NULL]

AllocOmxs(n, good, base) ==
    [index \in 1 .. n |-> IF index <= good THEN base + (index - 1) ELSE NULL]

\* Lines 69 and 101-103: the runtime type is the selected one, unless an
\* allocation failed.
\* A bug: the test of omx_encoder_init's result is inverted.
PrepareRunTypeInverted(type, failed) == IF failed THEN type ELSE "CPU"

\* A bug: a failed allocation does not reach use_fallback.
PrepareRunTypeNoFallback(type, failed) == type

PrepareRunType(type, failed) == IF failed THEN "CPU" ELSE type

encoder_prepare(good) ==
    /\ Running /\ AllIdle
    /\ n_prepares < MaxPrepares
    /\ IF enc_type = "OMX"
       THEN LET n == ClampWorkers(n_workers) IN
            /\ good \in 0 .. n
            /\ n_workers' = n
            /\ n_omxs' = n_workers'
            /\ omxs' = AllocOmxs(n_omxs', good, next_inst)
            /\ omxs_alloc' = TRUE
            /\ next_inst' = next_inst + good
            /\ run_type' = PrepareRunType(enc_type, good < n_omxs')
            /\ requested' = n_workers
            /\ fallback_by' = IF good < n_omxs' THEN "prepare" ELSE "none"
            /\ fell' = (fell \/ good < n_omxs')
            /\ reselected' = (reselected /\ ~(good < n_omxs'))
       ELSE /\ good = 0
            /\ run_type' = PrepareRunType(enc_type, FALSE)
            /\ fallback_by' = "none"
            /\ UNCHANGED <<n_workers, n_omxs, omxs, omxs_alloc, next_inst,
                           requested, fell, reselected>>
    /\ prep_type' = enc_type
    /\ era_failures' = 0
    /\ live_touched' = 0
    /\ n_prepares' = n_prepares + 1
    /\ UNCHANGED <<enc_type, quality, enc_state, release_log, fault,
                   worker_vars, ever_live_failed>>
    /\ UNCHANGED dump_vars

\* ------------------------------------------------- encoder_prepare_live
\* Lines 138-153: the runtime type after the loop over the instances.
\* A bug: a failed omx_encoder_prepare_live is ignored.
LiveRunTypeNoFallback(failed) == run_type

LiveRunType(failed) == IF failed THEN "CPU" ELSE run_type

\* A bug: the selected type is tested, not the runtime one.
LiveTestedTypeSelected == enc_type

\* Line 138: the type the loop over the instances is guarded by.
LiveTestedType == run_type

\* `bad` is the slot whose omx_encoder_prepare_live fails, n_omxs if none.
encoder_prepare_live(bad) ==
    /\ Running /\ AllIdle
    /\ IF LiveTestedType = "OMX"
       THEN /\ bad \in 0 .. n_omxs
            /\ fault' = IF \E index \in 0 .. (n_omxs - 1) :
                              index <= bad /\ ~Live(omxs[index + 1])
                        THEN "bad_handle" ELSE fault
            /\ run_type' = LiveRunType(bad < n_omxs)
            /\ fallback_by' = IF bad < n_omxs THEN "prepare_live"
                              ELSE fallback_by
            /\ fell' = (fell \/ bad < n_omxs)
            /\ reselected' = (reselected /\ ~(bad < n_omxs))
            /\ ever_live_failed' = (ever_live_failed \/ bad < n_omxs)
            /\ live_touched' = IF bad < n_omxs THEN bad + 1 ELSE n_omxs
       ELSE /\ bad = 0
            /\ live_touched' = 0
            /\ UNCHANGED <<fault, run_type, fallback_by, fell, reselected,
                           ever_live_failed>>
    /\ UNCHANGED <<enc_type, quality, n_omxs, omxs, omxs_alloc, enc_state,
                   n_workers, next_inst, release_log, worker_vars,
                   requested, prep_type, era_failures, n_prepares>>
    /\ UNCHANGED dump_vars

\* ---------------------------------------------- encoder_compress_buffer
\* Line 169: encoder->run->omxs[worker_number].
\* A bug: the slot after the worker's own.
SlotHandleOffByOne(w) == IF w + 1 < Len(omxs) THEN omxs[w + 2] ELSE NULL

SlotHandle(w) == IF w < Len(omxs) THEN omxs[w + 1] ELSE NULL

\* Line 181: what the error path stores in encoder->run->type.
\* A bug: the error path leaves the runtime type alone.
ErrorRunTypeKept == run_type

ErrorRunType == "CPU"

\* Lines 169-171: the codecs a call has invoked once the hardware codec
\* returned `res`.
\* A bug: a failed frame is compressed again by the software codec.
AfterOmxRetry(calls, res) ==
    calls \o (IF res < 0 THEN <<"hw_fail", "sw">> ELSE <<"hw_ok">>)

AfterOmx(calls, res) ==
    calls \o << IF res < 0 THEN "hw_fail" ELSE "hw_ok" >>

\* Lines 159-166: the call, and the first test of run->type.
CompressBegin(w) ==
    /\ Running
    /\ w < n_workers
    /\ w_pc[w] = "idle"
    /\ IF run_type = "CPU"
       THEN /\ w_calls' = [w_calls EXCEPT ![w] = <<"sw">>]
            /\ w_pc' = [w_pc EXCEPT ![w] = "ret"]
       ELSE /\ w_calls' = [w_calls EXCEPT ![w] = <<>>]
            /\ w_pc' = [w_pc EXCEPT ![w] = "l168"]
    /\ w_ret' = [w_ret EXCEPT ![w] = 0]
    /\ UNCHANGED <<enc_type, quality, run_type, n_omxs, omxs, omxs_alloc,
                   enc_state, n_workers, next_inst, release_log, fault,
                   w_handle, hist_vars>>
    /\ UNCHANGED dump_vars

\* Lines 168-169: the second test of run->type, and the hardware codec
\* entered with this worker's instance.
CompressElse(w) ==
    /\ Running
    /\ w_pc[w] = "l168"
    /\ IF run_type = "OMX"
       THEN /\ w_handle' = [w_handle EXCEPT ![w] = SlotHandle(w)]
            /\ w_pc' = [w_pc EXCEPT ![w] = "l169"]
            /\ fault' = IF Live(SlotHandle(w)) THEN fault ELSE "bad_handle"
       ELSE /\ w_pc' = [w_pc EXCEPT ![w] = "ret"]
            /\ UNCHANGED <<w_handle, fault>>
    /\ UNCHANGED <<enc_type, quality, run_type, n_omxs, omxs, omxs_alloc,
                   enc_state, n_workers, next_inst, release_log,
                   w_calls, w_ret, hist_vars>>
    /\ UNCHANGED dump_vars

\* Lines 169-175: omx_encoder_compress_buffer returns `res`.
CompressOmx(w, res) ==
    /\ Running
    /\ w_pc[w] = "l169"
    /\ w_calls' = [w_calls EXCEPT ![w] = AfterOmx(w_calls[w], res)]
    /\ w_pc' = [w_pc EXCEPT ![w] = IF res < 0 THEN "l181" ELSE "ret"]
    /\ UNCHANGED <<enc_type, quality, run_type, n_omxs, omxs, omxs_alloc,
                   enc_state, n_workers, next_inst, release_log, fault,
                   w_ret, w_handle, hist_vars>>
    /\ UNCHANGED dump_vars

\* Lines 179-182: the error path.
CompressError(w) ==
    /\ Running
    /\ w_pc[w] = "l181"
    /\ run_type' = ErrorRunType
    /\ w_ret' = [w_ret EXCEPT ![w] = -1]
    /\ w_pc' = [w_pc EXCEPT ![w] = "ret"]
    /\ fallback_by' = "compress"
    /\ fell' = TRUE
    /\ reselected' = FALSE
    /\ era_failures' = era_failures + 1
    /\ UNCHANGED <<enc_type, quality, n_omxs, omxs, omxs_alloc, enc_state,
                   n_workers, next_inst, release_log, fault,
                   w_calls, w_handle,
                   requested, prep_type, ever_live_failed, live_touched,
                   n_prepares>>
    /\ UNCHANGED dump_vars

\* The call is over: the worker is free to make the next one.
CompressReturn(w) ==
    /\ Running
    /\ w_pc[w] = "ret"
    /\ w_pc' = [w_pc EXCEPT ![w] = "idle"]
    /\ w_calls' = [w_calls EXCEPT ![w] = <<>>]
    /\ w_ret' = [w_ret EXCEPT ![w] = 0]
    /\ w_handle' = [w_handle EXCEPT ![w] = NULL]
    /\ UNCHANGED <<enc_type, quality, run_type, n_omxs, omxs, omxs_alloc,
                   enc_state, n_workers, next_inst, release_log, fault,
                   hist_vars>>
    /\ UNCHANGED dump_vars

\* ------------------------------------------------------ encoder_destroy
\* Lines 111-113: a slot's instance is destroyed unless the slot is NULL.
\* A bug: the NULL test of line 111 is missing.
SlotReleaseAlways(h) == <<h>>

SlotRelease(h) == IF h # NULL THEN <<h>> ELSE <<>>

\* Lines 110-114: the loop over the slots, from `index` up.
\* A bug: the slots are walked from the last to the first.
RECURSIVE DestroySlotsDescending(_, _, _)
DestroySlotsDescending(arr, index, n) ==
    IF index >= n THEN <<>>
    ELSE DestroySlotsDescending(arr, index + 1, n)
             \o (IF arr[index + 1] # NULL THEN <<arr[index + 1]>> ELSE <<>>)

RECURSIVE DestroySlots(_, _, _)
DestroySlots(arr, index, n) ==
    IF index >= n THEN <<>>
    ELSE SlotRelease(arr[index + 1]) \o DestroySlots(arr, index + 1, n)

\* Lines 109-119: everything one call releases, in order.
DestroyLog(arr, alloc, n) ==
    (IF alloc THEN DestroySlots(arr, 0, n) \o <<FREE_OMXS>> ELSE <<>>)
        \o <<FREE_RUN, FREE_ENCODER>>

encoder_destroy ==
    /\ Running /\ AllIdle
    /\ release_log' = release_log \o DestroyLog(omxs, omxs_alloc, n_omxs)
    /\ enc_state' = "freed"
    /\ UNCHANGED <<enc_type, quality, run_type, n_omxs, omxs, omxs_alloc,
                   n_workers, next_inst, fault, worker_vars, hist_vars>>
    /\ UNCHANGED dump_vars

\* A second call on the same encoder reads encoder->run from released
\* memory.  Either the read faults, or the released memory still holds its
\* old contents and everything is released once more.
encoder_destroy_again ==
    /\ enc_state = "freed" /\ fault = "none"
    /\ fault' = "use_after_free"
    /\ \/ release_log' = release_log
       \/ release_log' = release_log \o DestroyLog(omxs, omxs_alloc, n_omxs)
    /\ UNCHANGED <<enc_type, quality, run_type, n_omxs, omxs, omxs_alloc,
                   enc_state, n_workers, next_inst, worker_vars, hist_vars>>
    /\ UNCHANGED dump_vars

\* ------------------------------------------------------ ustreamer-dump
\* The whole seconds of a clock reading in tenths of a second.
floor_ms(t) == t \div 10

\* The instants, in tenths of a second, of the frames of the example
\* 0.1, 0.3, 0.5, 0.9, 1.2, 1.4.
ExampleFrames == <<1, 3, 5, 9, 12, 14>>

\* _dump_sink has been called: lines 155-159.
DumpStart(path, json) ==
    /\ output_path = path
    /\ output_json = json
    /\ stop = FALSE
    /\ d_pc = "l161"
    /\ frame = "alive"
    /\ sink = "NULL"
    /\ output_fp = "NULL"
    /\ base64_data = FALSE
    /\ fps = 0
    /\ fps_accum = 0
    /\ fps_second = 0
    /\ retval = 0
    /\ now = 0
    /\ d_freed = [base64 |-> 0, file |-> 0, stdout |-> 0, sink |-> 0,
                  frame |-> 0]
    /\ d_error = 0
    /\ d_events = <<>>
    /\ emitted = 0
    /\ write_failed = FALSE
    /\ reads = 0
    /\ seen = [second \in 0 .. floor_ms(MaxNow) |-> 0]
    /\ ex = 0
    /\ late_reads = 0
    /\ exit_code = -1

\* Line 131: a signal arrives at any moment and sets the flag.
_signal_handler ==
    /\ d_pc # "exit"
    /\ stop' = TRUE
    /\ UNCHANGED <<output_path, output_json, d_pc, frame, sink, output_fp,
                   base64_data, fps, fps_accum, fps_second, retval, now,
                   d_freed, d_error, d_events, emitted, write_failed, reads,
                   exit_code>>
    /\ UNCHANGED <<seen, ex, late_reads>>
    /\ UNCHANGED enc_vars

\* Lines 161-172: the output is opened; fopen succeeds or not.
DumpOpenOutput(fopen_ok) ==
    /\ d_pc = "l161"
    /\ IF output_path # ""
       THEN IF output_path = "-"
            THEN /\ fopen_ok
                 /\ output_fp' = "stdout"
                 /\ d_pc' = "l174"
                 /\ UNCHANGED retval
            ELSE IF fopen_ok
                 THEN /\ output_fp' = "file"
                      /\ d_pc' = "l174"
                      /\ UNCHANGED retval
                 ELSE /\ output_fp' = "NULL"
                      /\ retval' = -1
                      /\ d_pc' = "l234"
       ELSE /\ fopen_ok
            /\ d_pc' = "l174"
            /\ UNCHANGED <<output_fp, retval>>
    /\ UNCHANGED <<output_path, output_json, stop, frame, sink, base64_data,
                   fps, fps_accum, fps_second, now, d_freed, d_error,
                   d_events, emitted, write_failed, reads, exit_code>>
    /\ UNCHANGED <<seen, ex, late_reads>>
    /\ UNCHANGED enc_vars

\* Lines 174-180: the sink is attached, or not.
DumpSinkInit(init_ok) ==
    /\ d_pc = "l174"
    /\ IF init_ok
       THEN /\ sink' = "open"
            /\ fps' = 0 /\ fps_accum' = 0 /\ fps_second' = 0
            /\ d_pc' = "l182"
            /\ UNCHANGED retval
       ELSE /\ retval' = -1
            /\ d_pc' = "l234"
            /\ UNCHANGED <<sink, fps, fps_accum, fps_second>>
    /\ UNCHANGED <<output_path, output_json, stop, frame, output_fp,
                   base64_data, now, d_freed, d_error, d_events, emitted,
                   write_failed, reads, exit_code>>
    /\ UNCHANGED <<seen, ex, late_reads>>
    /\ UNCHANGED enc_vars

\* A bug: the loop never looks at the flag.
LoopContinuesAlways(flag) == TRUE

\* Line 182: the loop's condition.
LoopContinues(flag) == ~flag

\* Lines 182 and 227-228: the loop's test of the flag.
DumpLoopTest ==
    /\ d_pc = "l182"
    /\ IF LoopContinues(stop)
       THEN /\ reads < MaxReads
            /\ d_pc' = "l182t"
            /\ UNCHANGED retval
       ELSE /\ retval' = 0
            /\ d_pc' = "l234"
    /\ UNCHANGED <<output_path, output_json, stop, frame, sink, output_fp,
                   base64_data, fps, fps_accum, fps_second, now, d_freed,
                   d_error, d_events, emitted, write_failed, reads,
                   exit_code>>
    /\ UNCHANGED <<seen, ex, late_reads>>
    /\ UNCHANGED enc_vars

\* Line 183: the loop's body calls memsink_client_get, which blocks until a
\* frame, an error or its timeout.  A signal may have arrived since the
\* test.
DumpReadCall ==
    /\ d_pc = "l182t"
    /\ d_pc' = "l183"
    /\ late_reads' = late_reads + (IF stop THEN 1 ELSE 0)
    /\ UNCHANGED <<output_path, output_json, stop, frame, sink, output_fp,
                   base64_data, fps, fps_accum, fps_second, retval, now,
                   d_freed, d_error, d_events, emitted, write_failed, reads,
                   seen, ex, exit_code>>
    /\ UNCHANGED enc_vars

\* A bug: every nonzero result ends the loop.
ReadOutcomeNoRetry(error) == IF error = 0 THEN "frame" ELSE "abort"

\* Lines 184 and 222: what the loop does with memsink_client_get's result.
ReadOutcome(error) ==
    IF error = 0 THEN "frame" ELSE IF error # -2 THEN "abort" ELSE "retry"

\* A bug: the frame is counted before the second is closed.
FpsWindowCountsFirst(f, accum, second, now_second) ==
    IF now_second # second
    THEN [fps |-> accum + 1, fps_accum |-> 0, fps_second |-> now_second]
    ELSE [fps |-> f, fps_accum |-> accum + 1, fps_second |-> second]

\* Lines 197-203: the frame counter of the current second.
FpsWindow(f, accum, second, now_second) ==
    IF now_second # second
    THEN [fps |-> accum, fps_accum |-> 0 + 1, fps_second |-> now_second]
    ELSE [fps |-> f, fps_accum |-> accum + 1, fps_second |-> second]

\* Lines 197-221: what one iteration does with a frame, in order.
FrameEvents(fp, json) ==
    <<"fps">> \o (IF fp # "NULL"
                  THEN (IF json THEN <<"base64", "write">> ELSE <<"write">>)
                           \o <<"flush">>
                  ELSE <<>>)

\* Lines 183-224: memsink_client_get returns `error` after `dt` tenths of a
\* second; with a frame, the write and the flush succeed or not.
DumpRead(error, dt, io_ok) ==
    /\ d_pc = "l183"
    /\ reads' = reads + 1
    /\ d_error' = error
    /\ IF ReadOutcome(error) = "frame"
       THEN LET w == FpsWindow(fps, fps_accum, fps_second, floor_ms(now'))
            IN  /\ now + dt <= MaxNow
                /\ now' = now + dt
                /\ fps' = w.fps
                /\ fps_accum' = w.fps_accum
                /\ fps_second' = w.fps_second
                /\ d_events' = FrameEvents(output_fp, output_json)
                /\ seen' = [seen EXCEPT ![floor_ms(now')] = @ + 1]
                /\ ex' = IF ex >= 0 /\ ex < Len(ExampleFrames)
                             /\ now' = ExampleFrames[ex + 1]
                          THEN ex + 1 ELSE -1
                /\ IF output_fp # "NULL"
                   THEN /\ base64_data' = (base64_data \/ output_json)
                        /\ emitted' = emitted + 1
                        /\ write_failed' = (write_failed \/ ~io_ok)
                   ELSE /\ io_ok
                        /\ UNCHANGED <<base64_data, emitted, write_failed>>
                /\ d_pc' = "l182"
                /\ UNCHANGED retval
       ELSE /\ dt = 1 /\ io_ok
            /\ d_events' = <<>>
            /\ IF ReadOutcome(error) = "abort"
               THEN retval' = -1 /\ d_pc' = "l234"
               ELSE d_pc' = "l182" /\ UNCHANGED retval
            /\ UNCHANGED <<now, fps, fps_accum, fps_second, base64_data,
                           emitted, write_failed, seen, ex>>
    /\ UNCHANGED <<output_path, output_json, stop, frame, sink, output_fp,
                   d_freed, late_reads, exit_code>>
    /\ UNCHANGED enc_vars

\* Lines 237-241: the output is closed unless it is absent or stdout.
\* A bug: every open stream is closed, the standard output included.
ClosesOutputAny(fp) == fp # "NULL"

\* A bug: the sink is destroyed whether or not it was attached.
DestroysSinkAlways(s) == TRUE

\* Line 242: the sink is destroyed if it was attached.
DestroysSink(s) == s # "NULL"

\* A bug: main returns what _dump_sink returned.
ExitCodeRaw(r) == r

\* Line 120: abs().
ExitCode(r) == IF r < 0 THEN -r ELSE r

ClosesOutput(fp) == fp # "NULL" /\ fp # "stdout"

\* Lines 233-248: the cleanup both labels run.
DumpCleanup ==
    /\ d_pc = "l234"
    /\ d_freed' = [d_freed EXCEPT
           !.base64 = @ + (IF base64_data THEN 1 ELSE 0),
           !.file = @ + (IF ClosesOutput(output_fp) /\ output_fp = "file"
                         THEN 1 ELSE 0),
           !.stdout = @ + (IF ClosesOutput(output_fp) /\ output_fp = "stdout"
                           THEN 1 ELSE 0),
           !.sink = @ + (IF DestroysSink(sink) THEN 1 ELSE 0),
           !.frame = @ + 1]
    /\ sink' = IF sink # "NULL" THEN "destroyed" ELSE sink
    /\ frame' = "destroyed"
    /\ d_pc' = "l120"
    /\ UNCHANGED <<output_path, output_json, stop, output_fp, base64_data,
                   fps, fps_accum, fps_second, retval, now, d_error, d_events,
                   emitted, write_failed, reads, exit_code>>
    /\ UNCHANGED <<seen, ex, late_reads>>
    /\ UNCHANGED enc_vars

\* Line 120: main returns abs() of what _dump_sink returned.
DumpMainReturn ==
    /\ d_pc = "l120"
    /\ exit_code' = ExitCode(retval)
    /\ d_pc' = "exit"
    /\ UNCHANGED <<output_path, output_json, stop, frame, sink, output_fp,
                   base64_data, fps, fps_accum, fps_second, retval, now,
                   d_freed, d_error, d_events, emitted, write_failed, reads>>
    /\ UNCHANGED <<seen, ex, late_reads>>
    /\ UNCHANGED enc_vars

\* ------------------------------------------------------- specification
\* The encoder, with any worker count the options allow.
Init ==
    /\ \E workers \in 1 .. MaxWorkers : EncStart(workers)
    /\ DumpStart("", FALSE)

Next ==
    \/ \E name \in BackendNames : SelectBackend(name)
    \/ \E good \in 0 .. OMX_MAX_ENCODERS : encoder_prepare(good)
    \/ \E bad \in 0 .. OMX_MAX_ENCODERS : encoder_prepare_live(bad)
    \/ \E w \in Workers : CompressBegin(w)
    \/ \E w \in Workers : CompressElse(w)
    \/ \E w \in Workers, res \in {-1, 0} : CompressOmx(w, res)
    \/ \E w \in Workers : CompressError(w)
    \/ \E w \in Workers : CompressReturn(w)
    \/ encoder_destroy
    \/ encoder_destroy_again

Spec == Init /\ [][Next]_vars

\* ustreamer-dump, with any output the options allow.
DumpInit ==
    /\ \E path \in {"", "-", "file"}, json \in BOOLEAN : DumpStart(path, json)
    /\ EncStart(1)

DumpNext ==
    \/ _signal_handler
    \/ \E fopen_ok \in BOOLEAN : DumpOpenOutput(fopen_ok)
    \/ \E init_ok \in BOOLEAN : DumpSinkInit(init_ok)
    \/ DumpLoopTest
    \/ DumpReadCall
    \/ \E error \in {0, -1, -2}, dt \in 1 .. MaxStep, io_ok \in BOOLEAN :
           DumpRead(error, dt, io_ok)
    \/ DumpCleanup
    \/ DumpMainReturn

SpecDump == DumpInit /\ [][DumpNext]_vars

\* What the main thread of ustreamer-dump does; signals are the rest.
DumpMainStep ==
    \/ \E fopen_ok \in BOOLEAN : DumpOpenOutput(fopen_ok)
    \/ \E init_ok \in BOOLEAN : DumpSinkInit(init_ok)
    \/ DumpLoopTest
    \/ DumpReadCall
    \/ \E error \in {0, -1, -2}, dt \in 1 .. MaxStep, io_ok \in BOOLEAN :
           DumpRead(error, dt, io_ok)
    \/ DumpCleanup
    \/ DumpMainReturn

\* ustreamer-dump whose main thread keeps running and whose sink reads
\* return: memsink_client_get is bounded by its timeout.
SpecDumpFair == SpecDump /\ WF_vars(DumpMainStep)

\* --------------------------------------------------------------- claims
Min(a, b) == IF a < b THEN a ELSE b

\* How often x occurs in seq.
Count(seq, x) == Cardinality({ j \in 1 .. Len(seq) : seq[j] = x })

\* The place of x's first occurrence in seq, 0 if there is none.
Pos(seq, x) ==
    IF \E j \in 1 .. Len(seq) : seq[j] = x
    THEN CHOOSE j \in 1 .. Len(seq) :
             seq[j] = x /\ \A k \in 1 .. (j - 1) : seq[k] # x
    ELSE 0

\* Worker w is inside, or has just left, the hardware codec.
UsesHardware(w) ==
    \/ w_pc[w] \in {"l169", "l181"}
    \/ "hw_ok" \in Range(w_calls[w])
    \/ "hw_fail" \in Range(w_calls[w])

C2_FailureIsReportedNotRetried ==
    /\ [](\A w \in Workers :
            (w_pc[w] = "ret" /\ "hw_fail" \in Range(w_calls[w]))
                => /\ w_ret[w] = -1
                   /\ run_type = "CPU"
                   /\ w_calls[w] = <<"hw_fail">>)
    /\ [][ \A w \in Workers :
            (w_pc[w] = "idle" /\ w_pc'[w] # "idle" /\ run_type = "CPU")
                => /\ w_pc'[w] = "ret"
                   /\ w_calls'[w] = <<"sw">>
                   /\ w_ret'[w] = 0 ]_vars

\* C2 witness: a call returns -1 after its hardware instance failed.
C2_Witness ==
    \E w \in Workers :
        w_pc[w] = "ret" /\ w_ret[w] = -1 /\ w_calls[w] = <<"hw_fail">>

\* What the first encoder_destroy must have released: every slot's
\* instance once, and nothing that is NULL.
ReleasedSlotsOnce ==
    /\ NULL \notin Range(release_log)
    /\ \A i \in 1 .. n_omxs :
           omxs[i] # NULL => Count(release_log, omxs[i]) = 1

C4_PrepareAllOrNothing ==
    /\ fallback_by = "prepare" =>
           /\ run_type = "CPU"
           /\ live_touched = 0
           /\ \A w \in Workers : ~UsesHardware(w)
    /\ run_type = "OMX" =>
           /\ fallback_by = "none"
           /\ \A i \in 1 .. n_omxs : omxs[i] # NULL

\* C4 witness: some but not all slots were allocated, and a worker
\* compresses through the software codec.
C4_Witness ==
    /\ fallback_by = "prepare"
    /\ \E i \in 1 .. n_omxs : omxs[i] # NULL
    /\ \E w \in Workers : w_pc[w] = "ret" /\ w_calls[w] = <<"sw">>

\* C5: a step of a compress call leaves everything shared alone except the
\* runtime type, which only the error path writes, and only to CPU; and
\* the instance a call hands to the hardware codec is live.
C5_WorkersShareOnlyTheTag ==
    /\ [](\A w \in Workers : w_pc[w] = "l169" => Live(w_handle[w]))
    /\ [][ w_pc' # w_pc =>
            /\ UNCHANGED <<enc_type, quality, n_omxs, omxs, omxs_alloc,
                           enc_state, n_workers, next_inst, release_log>>
            /\ IF \E w \in Workers :
                      /\ w_pc[w] = "l181" /\ w_pc'[w] = "ret"
                      /\ w_calls[w] = <<"hw_fail">>
               THEN run_type' = "CPU"
               ELSE run_type' = run_type ]_vars

\* C5 witness: two calls are inside the hardware codec at once.
C5_Witness ==
    \E v, w \in Workers : v # w /\ w_pc[v] = "l169" /\ w_pc[w] = "l169"

\* C6 as stated: at most one compress call fails per fallback.
C6_AsStated == era_failures <= 1

\* C6 amended: a call fails exactly when its own hardware instance failed,
\* so one fallback can cost one call per slot: at most n_omxs calls fail
\* between two encoder_prepare calls.
C6_OneFailurePerSlot ==
    /\ era_failures <= n_omxs
    /\ \A w \in Workers :
           w_pc[w] = "ret" => (w_ret[w] = -1 <=> w_calls[w] = <<"hw_fail">>)

\* C6 witness: two calls have failed since the last encoder_prepare.
C6_Witness == era_failures >= 2

\* C7: the first encoder_destroy releases the instance of every non-NULL
\* slot once, in ascending slot order, then the slot array, then the
\* runtime, then the encoder.
C7_DestroyOrder ==
    (enc_state = "freed" /\ fault = "none") =>
        LET log == release_log
            top == IF omxs_alloc THEN 3 ELSE 2
            slots == IF omxs_alloc THEN 1 .. n_omxs ELSE {}
        IN  /\ Len(log) >= top
            /\ log[Len(log)] = FREE_ENCODER
            /\ log[Len(log) - 1] = FREE_RUN
            /\ omxs_alloc => log[Len(log) - 2] = FREE_OMXS
            /\ \A j \in 1 .. (Len(log) - top) :
                   \E i \in slots : omxs[i] # NULL /\ omxs[i] = log[j]
            /\ \A i \in slots : omxs[i] # NULL => Count(log, omxs[i]) = 1
            /\ \A i1, i2 \in slots :
                   (i1 < i2 /\ omxs[i1] # NULL /\ omxs[i2] # NULL)
                       => Pos(log, omxs[i1]) < Pos(log, omxs[i2])

\* C7 witness: destroyed with two instances and an empty slot.
C7_Witness ==
    /\ enc_state = "freed" /\ fault = "none"
    /\ n_omxs = 3
    /\ omxs[1] # NULL /\ omxs[2] # NULL /\ omxs[3] = NULL

C9_WorkersClamped ==
    prep_type = "OMX" =>
        /\ n_omxs = Min(requested, OMX_MAX_ENCODERS)
        /\ Len(omxs) = n_omxs
        /\ n_workers = n_omxs
        /\ fallback_by = "none" => run_type = "OMX"

\* C9 witness: more workers were requested than OMX allows, and the
\* backend is hardware.
C9_Witness ==
    /\ prep_type = "OMX"
    /\ requested > OMX_MAX_ENCODERS
    /\ run_type = "OMX"

\* C10: the result of the sink read decides the iteration.  On a timeout
\* (-2) nothing is emitted, the FPS window is left alone and the loop goes
\* back to its test, from where, with the stop flag clear, it reads again;
\* on an error the loop is left with -1, which main turns into exit code 1;
\* on a frame the FPS window is updated first and then, with an output, one
\* frame is written.
C10_ReadDecidesTheStep ==
    /\ [][ (d_pc = "l183" /\ d_pc' # "l183") =>
            /\ d_error' = -2 =>
                   /\ d_pc' = "l182"
                   /\ d_events' = <<>>
                   /\ UNCHANGED <<emitted, fps, fps_accum, fps_second, retval>>
            /\ d_error' \notin {0, -2} =>
                   /\ d_pc' = "l234"
                   /\ retval' = -1
                   /\ d_events' = <<>>
                   /\ UNCHANGED emitted
            /\ d_error' = 0 =>
                   /\ d_pc' = "l182"
                   /\ d_events'[1] = "fps"
                   /\ Count(d_events', "fps") = 1
                   /\ fps_accum' >= 1
                   /\ fps_second' = floor_ms(now')
                   /\ IF output_fp # "NULL"
                      THEN /\ emitted' = emitted + 1
                           /\ Count(d_events', "write") = 1
                           /\ Pos(d_events', "fps") < Pos(d_events', "write")
                      ELSE /\ emitted' = emitted
                           /\ d_events' = <<"fps">> ]_vars
    /\ [][ (d_pc = "l182" /\ ~stop /\ d_pc' # d_pc) => d_pc' = "l182t" ]_vars
    /\ [][ (d_pc = "l182t" /\ d_pc' # d_pc) => d_pc' = "l183" ]_vars
    /\ [](d_pc = "exit" /\ d_error \notin {0, -2} => exit_code = 1)

\* C10 witness: after a written frame a read timed out, and the loop is
\* reading again.
C10_Witness ==
    /\ d_pc = "l183"
    /\ d_error = -2
    /\ emitted >= 1
    /\ reads >= 2

\* C11: a frame observed in another whole second than the marker's
\* publishes as FPS the number of frames observed in the marker's second,
\* moves the marker and is itself the first frame counted in the new
\* second; any other frame is added to the count and publishes nothing.
\* For frames at 0.1, 0.3, 0.5, 0.9, 1.2, 1.4 the published FPS is 0 through
\* the first four frames and 4 from the frame at 1.2 on.
C11_FpsWindow ==
    /\ [][ (d_pc = "l183" /\ reads' = reads + 1 /\ d_error' = 0) =>
            IF floor_ms(now') # fps_second
            THEN /\ fps' = seen[fps_second]
                 /\ fps_accum' = 1
                 /\ fps_second' = floor_ms(now')
            ELSE /\ fps' = fps
                 /\ fps_accum' = fps_accum + 1
                 /\ fps_second' = fps_second ]_vars
    /\ [](fps_accum = seen[fps_second])
    /\ [](ex \in 1 .. 4 => (fps = 0 /\ fps_accum = ex /\ fps_second = 0))
    /\ [](ex = 5 => (fps = 4 /\ fps_accum = 1 /\ fps_second = 1))
    /\ [](ex = 6 => (fps = 4 /\ fps_accum = 2 /\ fps_second = 1))

\* C11 witness: the frame at 1.2 of the example has been observed.
C11_Witness == ex = 5 /\ now = 12 /\ fps = 4

\* C12: termination of the loop is cooperative.  The signal handler only
\* sets the flag; the flag is consulted at the loop's test and nowhere else,
\* so a read in flight is left to return and a body already entered makes
\* its read; once the flag is set at most one further read is started, the
\* test leaves the loop with retval 0, and, every read returning, cleanup
\* runs and main returns.
C12_CooperativeStop ==
    /\ [][ (~stop /\ stop') =>
            UNCHANGED <<d_pc, retval, reads, late_reads, d_freed>> ]_vars
    /\ [][ (d_pc = "l183" /\ d_pc' # d_pc) => reads' = reads + 1 ]_vars
    /\ [][ (d_pc = "l182t" /\ d_pc' # d_pc) => d_pc' = "l183" ]_vars
    /\ [][ (d_pc = "l182" /\ stop /\ d_pc' # d_pc) =>
            (d_pc' = "l234" /\ retval' = 0) ]_vars
    /\ [](late_reads <= 1)
    /\ stop ~> (d_pc = "exit" /\ d_freed.frame = 1)

\* C12 witness: a read was started after the flag was set, and the program
\* has still ended through cleanup.
C12_Witness == stop /\ late_reads = 1 /\ d_pc = "exit" /\ d_freed.frame = 1

\* C13: the exit code is the absolute value of what _dump_sink returned.
\* It is 1 when the output could not be opened, the sink could not be
\* attached or a sink read returned an error, and 0 otherwise, which takes
\* a signal: the loop is left with 0 only through the stop flag.
C13_ExitCode ==
    d_pc = "exit" =>
        /\ exit_code >= 0
        /\ exit_code \in {retval, -retval}
        /\ (output_path = "file" /\ output_fp = "NULL") => exit_code = 1
        /\ sink = "NULL" => exit_code = 1
        /\ d_error \notin {0, -2} => exit_code = 1
        /\ (sink # "NULL" /\ d_error \in {0, -2}) => (exit_code = 0 /\ stop)

\* C13 witness: a sink read failed after frames had been written, and main
\* has returned.
C13_Witness ==
    d_pc = "exit" /\ retval = -1 /\ d_error = -1 /\ emitted >= 1

\* C14: with the output path '-' the stream written to is the standard
\* output, and cleanup never closes it, whatever ended the program; a file
\* opened from a path is closed once by cleanup, and only by cleanup.
C14_StdoutStaysOpen ==
    /\ [](output_path = "-" =>
            output_fp = (IF d_pc = "l161" THEN "NULL" ELSE "stdout"))
    /\ [][ emitted' # emitted =>
            (output_fp # "NULL" /\ Count(d_events', "write") = 1) ]_vars
    /\ [](d_freed.stdout = 0)
    /\ [](d_freed.file =
            (IF d_pc \in {"l120", "exit"} /\ output_fp = "file" THEN 1 ELSE 0))

\* C14 witness: frames went to the standard output, a sink read failed,
\* and the program has ended.
C14_Witness ==
    /\ d_pc = "exit"
    /\ output_path = "-" /\ output_fp = "stdout"
    /\ emitted >= 1
    /\ d_error = -1

\* C15: cleanup releases what was acquired, once, and nothing else: the
\* frame always, the sink if it was attached, the file if it was opened,
\* the base64 buffer if one was allocated; nothing is released before
\* cleanup.  When the output cannot be opened or the sink cannot be
\* attached no frame is read and the exit code is 1.
C15_CleanupReleasesWhatWasAcquired ==
    /\ d_pc \notin {"l120", "exit"} =>
           d_freed = [base64 |-> 0, file |-> 0, stdout |-> 0, sink |-> 0,
                      frame |-> 0]
    /\ d_pc \in {"l120", "exit"} =>
           /\ d_freed.frame = 1
           /\ d_freed.sink = (IF sink = "NULL" THEN 0 ELSE 1)
           /\ d_freed.file = (IF output_fp = "file" THEN 1 ELSE 0)
           /\ d_freed.stdout = 0
           /\ d_freed.base64 = (IF base64_data THEN 1 ELSE 0)
           /\ sink = "NULL" => (reads = 0 /\ emitted = 0 /\ retval = -1)
    /\ (d_pc = "exit" /\ sink = "NULL") => exit_code = 1
    /\ (sink = "NULL" /\ d_pc # "l161" /\ d_pc # "l174") =>
           d_pc \in {"l234", "l120", "exit"}

\* C15 witness: the output file was opened, the sink could not be attached,
\* and the program has ended.
C15_Witness ==
    /\ d_pc = "exit"
    /\ output_fp = "file"
    /\ sink = "NULL"
    /\ d_freed.file = 1

\* C16, as stated: once a write or flush of an emitted frame has failed the
\* loop reads no further frame, and the exit code is not 0.
C16_AsStated ==
    write_failed =>
        /\ d_pc \notin {"l182t", "l183"}
        /\ d_pc = "exit" => exit_code # 0

\* C17, as stated: a call that returns 0 has compressed the buffer through
\* exactly one codec, whatever the other workers did meanwhile.
C17_AsStated ==
    \A w \in Workers :
        (w_pc[w] = "ret" /\ w_ret[w] = 0) =>
            w_calls[w] \in {<<"sw">>, <<"hw_ok">>}

\* C18, as stated: after one encoder_destroy every hardware instance ever
\* allocated has been released exactly once.
C18_AsStated ==
    (enc_state = "freed" /\ fault = "none") =>
        \A h \in 1 .. (next_inst - 1) : Count(release_log, h) = 1

\* C19: while the encoder lives and the runtime type is OMX, the slot array
\* has n_omxs = dev->n_workers slots, at most OMX_MAX_ENCODERS, each holding
\* an instance that was allocated and not released; a worker inside the
\* hardware codec got there with an index inside the array and with the
\* non-NULL instance of its own slot, and no codec call ever received a
\* NULL or released handle.
C19_HardwareSlotsAreFilled ==
    enc_state = "alive" =>
        /\ run_type = "OMX" =>
               /\ omxs_alloc
               /\ n_omxs = n_workers
               /\ n_omxs <= OMX_MAX_ENCODERS
               /\ Len(omxs) = n_omxs
               /\ \A index \in 1 .. n_omxs : Live(omxs[index])
        /\ \A w \in Workers :
               w_pc[w] = "l169" =>
                   /\ w < n_workers
                   /\ w < Len(omxs)
                   /\ w_handle[w] = omxs[w + 1]
                   /\ Live(w_handle[w])
        /\ fault = "none"

\* C19 witness: four workers were asked for, and the worker of the last of
\* the three slots is inside the hardware codec.
C19_Witness ==
    /\ enc_state = "alive"
    /\ run_type = "OMX"
    /\ requested > OMX_MAX_ENCODERS
    /\ w_pc[OMX_MAX_ENCODERS - 1] = "l169"

\* C20: a fallback writes the runtime type and nothing else.  The error
\* path of encoder_compress_buffer and a failing encoder_prepare_live
\* leave the selected type, the quality, the slot count, the slots and the
\* instances as they were and release nothing; a failing encoder_prepare
\* leaves the selected type and the quality alone, keeps in their slots the
\* instances it allocated before the failure and releases nothing.  With
\* the runtime type CPU, encoder_prepare_live touches no instance and
\* changes nothing, and encoder_compress_buffer runs the software codec
\* and changes nothing.
C20_FallbackWritesOnlyTheTag ==
    /\ [][ (\E w \in Workers : CompressError(w)) =>
            /\ run_type' = "CPU"
            /\ UNCHANGED <<enc_type, quality, n_omxs, omxs, omxs_alloc,
                           n_workers, next_inst, release_log, enc_state,
                           fault>> ]_vars
    /\ [][ ((\E bad \in 0 .. OMX_MAX_ENCODERS : encoder_prepare_live(bad))
                /\ run_type = "OMX" /\ run_type' # "OMX") =>
            /\ run_type' = "CPU"
            /\ UNCHANGED <<enc_type, quality, n_omxs, omxs, omxs_alloc,
                           n_workers, next_inst, release_log, enc_state,
                           fault>> ]_vars
    /\ [][ ((\E good \in 0 .. OMX_MAX_ENCODERS : encoder_prepare(good))
                /\ run_type' # enc_type) =>
            /\ run_type' = "CPU"
            /\ UNCHANGED <<enc_type, quality, release_log, enc_state, fault>>
            /\ n_omxs' = n_workers'
            /\ Len(omxs') = n_omxs'
            /\ \A index \in 1 .. n_omxs' :
                   IF index <= next_inst' - next_inst
                   THEN omxs'[index] = next_inst + (index - 1)
                   ELSE omxs'[index] = NULL ]_vars
    /\ [][ ((\E bad \in 0 .. OMX_MAX_ENCODERS : encoder_prepare_live(bad))
                /\ run_type = "CPU") =>
            /\ live_touched' = 0
            /\ UNCHANGED <<enc_type, quality, run_type, n_omxs, omxs,
                           omxs_alloc, n_workers, next_inst, release_log,
                           enc_state, fault, worker_vars>> ]_vars
    /\ [][ ((\E w \in Workers : CompressBegin(w) /\ w_pc'[w] = "ret")
                /\ run_type = "CPU") =>
            /\ \E w \in Workers :
                   w_pc[w] = "idle" /\ w_calls'[w] = <<"sw">> /\ w_ret'[w] = 0
            /\ UNCHANGED <<enc_type, quality, run_type, n_omxs, omxs,
                           omxs_alloc, n_workers, next_inst, release_log,
                           enc_state, fault>> ]_vars

\* C20 witness: a compress failure has made the runtime type CPU, a later
\* encoder_prepare_live has found nothing to do, and the two or more slots
\* still hold their instances.
C20_Witness ==
    /\ enc_state = "alive"
    /\ fallback_by = "compress"
    /\ run_type = "CPU"
    /\ enc_type = "OMX"
    /\ quality = DefaultQuality
    /\ n_omxs >= 2
    /\ \A index \in 1 .. n_omxs : Live(omxs[index])
    /\ AllIdle

====
